---- MODULE Spec2Model ----
(***************************************************************************)
(* Model of the Credit Card Offers Assistant (src/main.py): the Streamlit  *)
(* session state, the inline retrieval-augmented chat pipeline of          *)
(* brand_selection_page, the restaurant finder with its offer lookup and   *)
(* notification, and the helper pair retrieve_documents / generate_answer. *)
(*                                                                         *)
(* Text that the code only passes around (queries, answers, brand names)   *)
(* is a TLA+ string.  Text that the code builds character by character     *)
(* (document contents and the assembled context) is a sequence of          *)
(* characters, so that the separator inserted by str.join is visible.      *)
(* A Python None is the empty sequence <<>> and a present value x is the   *)
(* one-element sequence <<x>> for top_restaurant and current_offer.        *)
(***************************************************************************)
EXTENDS Integers, Sequences, FiniteSets, TLC

VARIABLES
    env,              \* os.environ: which credentials are configured
    entry,            \* which code is being driven: the app, the helper pair, or
                      \* one function on its own
    page,             \* st.session_state.page
    name,             \* st.session_state.name
    selected_brands,  \* st.session_state.selected_brands
    chat_history,     \* st.session_state.chat_history
    top_restaurant,   \* st.session_state.top_restaurant
    current_offer,    \* st.session_state.current_offer
    stage,            \* position of the running chat pipeline
    user_query,       \* the submitted chat input of the running pipeline
    results,          \* result of collection.find in the chat pipeline
    context,          \* the assembled context
    response,         \* the answer of the chat pipeline (<<>> while unset)
    calls,            \* external calls made by the current invocation, in order
    h_pc,             \* position of the helper function under call
    h_query,          \* query given to retrieve_documents / generate_answer, or the
                      \* restaurant name given to find_offers_for_restaurant
    h_brands,         \* brands given to retrieve_documents
    documents,        \* return value of retrieve_documents, or of the offer search
    answer,           \* return value of generate_answer or of
                      \* find_offers_for_restaurant (<<>> while unset)
    offer_for,        \* history: the restaurant current_offer was looked up for
    notice            \* what the last script run displayed about the notification

vars == << env, entry, page, name, selected_brands, chat_history, top_restaurant,
           current_offer, stage, user_query, results, context, response, calls,
           h_pc, h_query, h_brands, documents, answer, offer_for, notice >>

session == << page, name, selected_brands, chat_history, top_restaurant, current_offer >>
pipeline == << stage, user_query, results, context, response >>
helper == << h_pc, h_query, h_brands, documents, answer >>
finder == << offer_for, notice >>

----------------------------------------------------------------------------
(* Bounds of the model *)

MaxQueries == 2   \* chat queries submitted in one session
MaxResults == 3   \* documents a vector search returns (the code asks for at most top_k)

----------------------------------------------------------------------------
(* Fixed values of the program *)

TopK == 5          \* limit of the chat pipeline's search and default top_k
NL == "\n"
Separator == << NL, NL >>   \* the "\n\n" given to str.join

MsgApiConfig == "I'm having trouble connecting to my knowledge base. Please check the API configuration."
MsgDbConfig == "I'm having trouble connecting to my knowledge base. Please check the database configuration."
MsgNoInfo == "I couldn't find any relevant information for your question in my database."
MsgError == "I encountered an error while processing your request. Please try again later."
MsgHelperNoInfo == "I couldn't find relevant information or there was an issue with the service."
MsgHelperError == "I encountered an issue while generating a response. Please try again."

\* a sample of the brands list
brands == { "Starbucks", "Taco Bell" }

----------------------------------------------------------------------------
(* Inputs and outcomes of the external services *)

Names == { << >>, << " " >>, << " ", "A", " " >> }   \* typed into the name box
Queries == { "best dining offer" }
Completions == { "Dine card: 3x points at restaurants" }
Restaurants == { "Unnamed Restaurant", "Luigi's" }

\* Documents of the knowledge base: content (optional, may be empty) and brand label.
Docs ==
    { [ id |-> 1, content |-> << "a" >>, brand |-> "Starbucks" ],
      [ id |-> 2, content |-> << "b" >>, brand |-> "Taco Bell" ],
      [ id |-> 3, brand |-> "Starbucks" ],
      [ id |-> 4, content |-> << >>, brand |-> "Taco Bell" ] }

Range(s) == { s[i] : i \in DOMAIN s }

\* Sequences of distinct elements of S, of length at most n.
RECURSIVE DistinctSeqs(_, _)
DistinctSeqs(S, n) ==
    IF n = 0 THEN { << >> }
    ELSE LET shorter == DistinctSeqs(S, n - 1)
         IN  shorter \cup UNION { { Append(s, x) : x \in S \ Range(s) } : s \in shorter }

Min(a, b) == IF a < b THEN a ELSE b

\* What the multiselect widget can return: brands in the order they were picked.
Selections == DistinctSeqs(brands, Cardinality(brands))

----------------------------------------------------------------------------
(* Credentials and clients *)

\* A variant of get_openai_client that builds the client without looking at the key.
get_openai_client_unchecked == TRUE

\* get_openai_client: a client (TRUE) when the key is set, else None (FALSE).
get_openai_client == env.OPENAI_API_KEY

\* get_astra_collection: a collection (TRUE) when token and endpoint are set and
\* the astrapy calls do not raise; else None (FALSE).
get_astra_collection(connects) == env.ASTRA_DB /\ connects

\* One external call as the service saw it.
Call(svc, ok, arg) == [ svc |-> svc, ok |-> ok, arg |-> arg ]

\* The calls get_astra_collection makes: none without credentials.
connect_calls(connects) ==
    IF env.ASTRA_DB THEN << Call("connect", connects, "openai") >> ELSE << >>

----------------------------------------------------------------------------
(* The vector store: collection.find(filter, sort, limit) *)

\* Documents a label filter admits; the empty filter (None) admits all.
Matching(filter) ==
    IF filter = << >> THEN Docs ELSE { d \in Docs : d.brand \in Range(filter) }

\* The possible results of a successful search: the store's contents and its
\* ranking are not known, so any ranking of at most `limit` admitted documents.
Find(filter, limit) == DistinctSeqs(Matching(filter), Min(limit, MaxResults))

----------------------------------------------------------------------------
(* Context assembly: "\n\n".join([doc.get("content", "") for doc in documents]) *)

doc_get_content(doc) == IF "content" \in DOMAIN doc THEN doc.content ELSE << >>

RECURSIVE join(_, _)
join(sep, parts) ==
    IF parts = << >> THEN << >>
    ELSE IF Len(parts) = 1 THEN parts[1]
    ELSE parts[1] \o sep \o join(sep, Tail(parts))

\* [doc.get("content", "") for doc in documents]
contents(docs) == [ i \in DOMAIN docs |-> doc_get_content(docs[i]) ]

NonEmpty(parts) == SelectSeq(parts, LAMBDA part : part # << >>)

\* A variant of assemble that leaves out the documents without content.
assemble_skip_empty(docs) == join(Separator, NonEmpty(contents(docs)))

\* A variant of assemble that joins with a single newline.
assemble_single_newline(docs) == join(<< NL >>, contents(docs))

assemble(docs) == join(Separator, contents(docs))

----------------------------------------------------------------------------
(* Initial state: module level of main.py, before any widget event *)

Stages == { "Idle", "Start", "Embedded", "Retrieved", "Assembled",
            "Answered", "NoInfo", "Aborted", "Raised" }
Terminal == { "Answered", "NoInfo", "Aborted" }

Init ==
    /\ env \in [ OPENAI_API_KEY : BOOLEAN, ASTRA_DB : BOOLEAN ]
    /\ entry \in { "app", "helpers" }
    /\ page = "name_input"
    /\ name = << >>
    /\ selected_brands = << >>
    /\ chat_history = << >>
    /\ top_restaurant = << >>
    /\ current_offer = << >>
    /\ stage = "Idle"
    /\ user_query = ""
    /\ results = << >>
    /\ context = << >>
    /\ response = << >>
    /\ calls = << >>
    /\ h_pc = "idle"
    /\ h_query = ""
    /\ h_brands = << >>
    /\ documents = << >>
    /\ answer = << >>
    /\ offer_for = << >>
    /\ notice = << >>

\* A widget event is handled by a script run of its own: none starts while the
\* chat pipeline of the previous run is still executing.
AppIdle == entry = "app" /\ stage = "Idle"

----------------------------------------------------------------------------
(* name_input_page *)

RECURSIVE lstrip(_)
lstrip(s) == IF s # << >> /\ Head(s) = " " THEN lstrip(Tail(s)) ELSE s

RECURSIVE rstrip(_)
rstrip(s) ==
    IF s # << >> /\ s[Len(s)] = " " THEN rstrip(SubSeq(s, 1, Len(s) - 1)) ELSE s

\* A variant of strip that leaves the whitespace in place.
strip_nothing(s) == s

strip(s) == rstrip(lstrip(s))

\* The "Continue" button with `typed` in the name box.
Continue(typed) ==
    /\ AppIdle
    /\ page = "name_input"
    /\ IF strip(typed) # << >>
       THEN /\ name' = typed
            /\ page' = "brand_selection"
       ELSE UNCHANGED << name, page >>
    /\ UNCHANGED << env, entry, selected_brands, chat_history, top_restaurant,
                    current_offer, calls >>
    /\ UNCHANGED pipeline
    /\ UNCHANGED helper
    /\ UNCHANGED finder

----------------------------------------------------------------------------
(* brand_selection_page, tab 1: preferences *)

\* The "Save Preferences" button with `selected` in the multiselect.
SavePreferences(selected) ==
    /\ AppIdle
    /\ page = "brand_selection"
    /\ IF selected # << >>
       THEN selected_brands' = selected
       ELSE UNCHANGED selected_brands
    /\ UNCHANGED << env, entry, page, name, chat_history, top_restaurant,
                    current_offer, calls >>
    /\ UNCHANGED pipeline
    /\ UNCHANGED helper
    /\ notice' = << >>   \* a new script run redraws the page
    /\ UNCHANGED offer_for

----------------------------------------------------------------------------
(* brand_selection_page, tab 1: the inline chat pipeline *)

Turn(role, content) == [ role |-> role, content |-> content ]

\* A variant of append_turn that overwrites the last turn.
append_turn_overwrite(history, turn) ==
    IF history = << >> THEN << turn >> ELSE [ history EXCEPT ![Len(history)] = turn ]

\* A variant of append_turn that does not record the error answer.
append_turn_drop_error(history, turn) ==
    IF turn.role = "assistant" /\ turn.content = MsgError THEN history
    ELSE Append(history, turn)

\* st.session_state.chat_history.append(turn)
append_turn(history, turn) == Append(history, turn)

\* st.chat_input delivers a query: the user turn is appended and the pipeline starts.
ChatInput(q) ==
    /\ AppIdle
    /\ page = "brand_selection"
    /\ Len(chat_history) < 2 * MaxQueries
    /\ chat_history' = append_turn(chat_history, Turn("user", q))
    /\ stage' = "Start"
    /\ user_query' = q
    /\ results' = << >>
    /\ context' = << >>
    /\ response' = << >>
    /\ calls' = << >>
    /\ UNCHANGED << env, entry, page, name, selected_brands, top_restaurant, current_offer >>
    /\ UNCHANGED helper
    /\ notice' = << >>   \* a new script run redraws the page
    /\ UNCHANGED offer_for

\* A variant of after_embed that swallows the raise and goes on without a vector.
after_embed_swallow(ok) == [ stage |-> "Embedded", response |-> response ]

\* A variant of after_embed whose handler gives the connectivity message.
after_embed_connectivity(ok) ==
    IF ok THEN [ stage |-> "Embedded", response |-> response ]
    ELSE [ stage |-> "Aborted", response |-> << MsgApiConfig >> ]

\* After client.embeddings.create: on success the vector is kept and the run goes
\* on; on a raise the handler `except Exception` sets the response.
after_embed(ok) ==
    IF ok THEN [ stage |-> "Embedded", response |-> response ]
    ELSE [ stage |-> "Aborted", response |-> << MsgError >> ]

\* get_openai_client and client.embeddings.create.
EmbedQuery ==
    /\ entry = "app"
    /\ stage = "Start"
    /\ IF ~get_openai_client
       THEN /\ response' = << MsgApiConfig >>
            /\ stage' = "Aborted"
            /\ UNCHANGED calls
       ELSE \E ok \in BOOLEAN :
                /\ calls' = Append(calls, Call("embed", ok, user_query))
                /\ stage' = after_embed(ok).stage
                /\ response' = after_embed(ok).response
    /\ UNCHANGED << env, entry, user_query, results, context >>
    /\ UNCHANGED session
    /\ UNCHANGED helper
    /\ UNCHANGED finder

\* A variant of after_search that treats a raise as an empty result, as
\* retrieve_documents does.
after_search_as_empty(ok, found) ==
    [ stage |-> "Retrieved", results |-> IF ok THEN found ELSE << >>, response |-> response ]

\* A variant of after_search that tries the search again after a raise.
after_search_retry(ok, found) ==
    IF ok THEN [ stage |-> "Retrieved", results |-> found, response |-> response ]
    ELSE [ stage |-> "Embedded", results |-> results, response |-> response ]

\* After collection.find: on success the results are kept; on a raise the handler
\* `except Exception` sets the response.
after_search(ok, found) ==
    IF ok THEN [ stage |-> "Retrieved", results |-> found, response |-> response ]
    ELSE [ stage |-> "Aborted", results |-> results, response |-> << MsgError >> ]

\* get_astra_collection and collection.find(sort = vector, limit = 5).
Retrieve ==
    /\ entry = "app"
    /\ stage = "Embedded"
    /\ \E connects \in BOOLEAN :
          IF ~get_astra_collection(connects)
          THEN /\ calls' = calls \o connect_calls(connects)
               /\ response' = << MsgDbConfig >>
               /\ stage' = "Aborted"
               /\ UNCHANGED results
          ELSE \E ok \in BOOLEAN, found \in Find(<< >>, TopK) :
                  /\ calls' = calls \o connect_calls(connects)
                                    \o << Call("search", ok, << >>) >>
                  /\ stage' = after_search(ok, found).stage
                  /\ results' = after_search(ok, found).results
                  /\ response' = after_search(ok, found).response
    /\ UNCHANGED << env, entry, user_query, context >>
    /\ UNCHANGED session
    /\ UNCHANGED helper
    /\ UNCHANGED finder

\* A variant of has_results that sends every result, empty or not, to the model.
has_results_always(found) == TRUE

\* The test `if not results` of the chat pipeline.
has_results(found) == found # << >>

\* `if not results`: the fixed no-information answer, without a completion call.
NoResults ==
    /\ entry = "app"
    /\ stage = "Retrieved"
    /\ ~has_results(results)
    /\ response' = << MsgNoInfo >>
    /\ stage' = "NoInfo"
    /\ UNCHANGED << env, entry, user_query, results, context, calls >>
    /\ UNCHANGED session
    /\ UNCHANGED helper
    /\ UNCHANGED finder

\* The else branch: the context is joined from the results.
AssembleContext ==
    /\ entry = "app"
    /\ stage = "Retrieved"
    /\ has_results(results)
    /\ context' = assemble(results)
    /\ stage' = "Assembled"
    /\ UNCHANGED << env, entry, user_query, results, response, calls >>
    /\ UNCHANGED session
    /\ UNCHANGED helper
    /\ UNCHANGED finder

\* A variant of after_completion whose call is outside the try block.
after_completion_uncaught(ok, text) ==
    IF ok THEN [ stage |-> "Answered", response |-> << text >> ]
    ELSE [ stage |-> "Raised", response |-> response ]

\* A variant of after_completion that starts the pipeline over on a raise.
after_completion_restart(ok, text) ==
    IF ok THEN [ stage |-> "Answered", response |-> << text >> ]
    ELSE [ stage |-> "Start", response |-> response ]

\* After client.chat.completions.create: the generated text, or on a raise the
\* response set by the handler `except Exception`.
after_completion(ok, text) ==
    IF ok THEN [ stage |-> "Answered", response |-> << text >> ]
    ELSE [ stage |-> "Answered", response |-> << MsgError >> ]

\* client.chat.completions.create with the prompt built from context and query.
Complete ==
    /\ entry = "app"
    /\ stage = "Assembled"
    /\ \E ok \in BOOLEAN, text \in Completions :
          /\ calls' = Append(calls, Call("generate", ok,
                                [ context |-> context, question |-> user_query ]))
          /\ stage' = after_completion(ok, text).stage
          /\ response' = after_completion(ok, text).response
    /\ UNCHANGED << env, entry, user_query, results, context >>
    /\ UNCHANGED session
    /\ UNCHANGED helper
    /\ UNCHANGED finder

\* st.write(response) and the append of the assistant turn; the script run ends
\* and its local variables with it.
AppendResponse ==
    /\ entry = "app"
    /\ stage \in Terminal
    /\ chat_history' = append_turn(chat_history, Turn("assistant", response[1]))
    /\ stage' = "Idle"
    /\ user_query' = ""
    /\ results' = << >>
    /\ context' = << >>
    /\ response' = << >>
    /\ calls' = << >>
    /\ UNCHANGED << env, entry, page, name, selected_brands, top_restaurant, current_offer >>
    /\ UNCHANGED helper
    /\ UNCHANGED finder

----------------------------------------------------------------------------
(* brand_selection_page, tab 2: the restaurant finder *)

(* Completion texts are sequences of characters, so that str.find, str.rfind, *)
(* slicing and len are computed as the code computes them.                    *)

\* {"title":"D","value":"3"}
ObjectText ==
    << "{", "\"", "t", "i", "t", "l", "e", "\"", ":", "\"", "D", "\"", ",", "\"", "v", "a", "l", "u", "e", "\"", ":", "\"", "3", "\"", "}" >>
WrappedText == << "x" >> \o ObjectText \o << "x" >>   \* prose around the object
BrokenText == << "{", "x", "}" >>                     \* braces, not JSON
ReversedText == << "}", "{" >>                        \* last '}' before first '{'
NumberText == << "4", "2" >>                          \* JSON, not an object
NullText == << "n", "u", "l", "l" >>                  \* JSON null
LongLen == 101
LongText == [ i \in 1..LongLen |-> "x" ]              \* prose of more than 100 characters

OfferTexts ==
    { ObjectText, WrappedText, BrokenText, ReversedText, NumberText, NullText, LongText }

OfferValueLimit == 100

\* str.find / str.rfind: 0-based index of the first / last occurrence, -1 if none.
find(text, ch) ==
    IF \E i \in DOMAIN text : text[i] = ch
    THEN (CHOOSE i \in DOMAIN text : text[i] = ch /\ \A j \in 1..(i - 1) : text[j] # ch) - 1
    ELSE -1

rfind(text, ch) ==
    IF \E i \in DOMAIN text : text[i] = ch
    THEN (CHOOSE i \in DOMAIN text : text[i] = ch /\ \A j \in (i + 1)..Len(text) : text[j] # ch) - 1
    ELSE -1

\* text[from:to] for 0 <= from <= to <= len(text)
slice(text, from, to) == SubSeq(text, from + 1, to)

\* json.loads on the texts of the model: the value, or JSONDecodeError.
\* A dict is a record of its keys, a number a record holding it, null is None.
json_loads(text) ==
    IF text = ObjectText
    THEN [ raised |-> FALSE, value |-> << [ title |-> << "D" >>, value |-> << "3" >> ] >> ]
    ELSE IF text = NumberText
    THEN [ raised |-> FALSE, value |-> << [ number |-> 42 ] >> ]
    ELSE IF text = NullText
    THEN [ raised |-> FALSE, value |-> << >> ]
    ELSE [ raised |-> TRUE, value |-> << >> ]

\* response_text[:100] if len(response_text) > 100 else response_text
first_100(text) ==
    IF Len(text) > OfferValueLimit THEN slice(text, 0, OfferValueLimit) ELSE text

\* Lines 305-321: what is returned for a completion text.
parse_offer(restaurant_name, response_text) ==
    LET json_start == find(response_text, "{")
        json_end == rfind(response_text, "}") + 1
        parsed == IF json_start >= 0 /\ json_end > json_start
                  THEN json_loads(slice(response_text, json_start, json_end))
                  ELSE json_loads(response_text)
    IN  IF ~parsed.raised THEN parsed.value
        ELSE << [ title |-> << "Offer for ", restaurant_name >>,
                  value |-> first_100(response_text) ] >>

\* The generic offer of lines 267-270.
generic_offer(restaurant_name) ==
    [ title |-> << "Special Offer for ", restaurant_name >>,
      value |-> << "Use your credit card to earn 2x points on dining" >> ]

\* What the external services do during one find_offers_for_restaurant call.
OfferOutcomes(texts) ==
    [ embed_ok : BOOLEAN, connects : BOOLEAN, search_ok : BOOLEAN,
      found : Find(<< >>, 3), completion_ok : BOOLEAN, text : texts ]

\* find_offers_for_restaurant(restaurant_name): the returned value, None being
\* <<>>.  Every raise is caught at line 323 and gives None.
find_offers_for_restaurant(restaurant_name, o) ==
    IF ~get_openai_client THEN << >>
    ELSE IF ~o.embed_ok THEN << >>
    ELSE IF ~get_astra_collection(o.connects) THEN << >>
    ELSE IF ~o.search_ok THEN << >>
    ELSE IF o.found = << >> THEN << generic_offer(restaurant_name) >>
    ELSE IF ~o.completion_ok THEN << >>
    ELSE parse_offer(restaurant_name, o.text)

\* The external calls find_offers_for_restaurant makes on the way.
find_offers_calls(restaurant_name, o) ==
    LET embed == << Call("embed", o.embed_ok, restaurant_name) >>
        connect == connect_calls(o.connects)
        search == << Call("search", o.search_ok, << >>) >>
        generate == << Call("generate", o.completion_ok, assemble(o.found)) >>
    IN  IF ~get_openai_client THEN << >>
        ELSE IF ~o.embed_ok THEN embed
        ELSE IF ~get_astra_collection(o.connects) THEN embed \o connect
        ELSE IF ~o.search_ok \/ o.found = << >> THEN embed \o connect \o search
        ELSE embed \o connect \o search \o generate

\* The completion texts the session is driven with.
AppOfferTexts == { ObjectText, BrokenText, NumberText, NullText }

\* The values find_offers_for_restaurant can return to the page for a restaurant.
OfferResults(restaurant_name) ==
    { find_offers_for_restaurant(restaurant_name, o) : o \in OfferOutcomes(AppOfferTexts) }

\* dict.get is defined on a dict only; on another value `offer.get` raises.
is_mapping(value) == { "title", "value" } \subseteq DOMAIN value

\* `if offer:`; the values of the model other than None are all truthy.
truthy(offer) == offer # << >>

\* What the POST to the Langflow webhook can do.
PostOutcomes == { "200", "500", "raise" }

\* send_notification(...): os.environ is read on each call (lines 330-331), so
\* whether URL and token are set is an input of the call.  True only when they
\* are set and the POST answers 200; every other path returns False.
send_notification(configured, post) == configured /\ post = "200"

\* The "Find Nearest Restaurant" button: one script run with the button set.
\* `clicked` is what the nested st.button("Send this offer to my phone")
\* returns in this run.  notice records what the run did about the
\* notification: nothing (<<>>), or what send_notification met, the value it
\* returned and whether the confirmation was displayed.
FindNearestRestaurant ==
    /\ AppIdle
    /\ page = "brand_selection"
    /\ \E located \in BOOLEAN, top \in { << >> } \cup { << r >> : r \in Restaurants } :
          IF ~located \/ top = << >>
          THEN /\ UNCHANGED << top_restaurant, current_offer, offer_for >>
               /\ notice' = << >>
          ELSE /\ top_restaurant' = top
               /\ \E offer \in OfferResults(top[1]) :
                     IF ~truthy(offer)
                     THEN /\ UNCHANGED << current_offer, offer_for >>
                          /\ notice' = << >>
                     ELSE /\ current_offer' = offer
                          /\ offer_for' = top
                          /\ IF ~is_mapping(offer[1])
                             THEN notice' = << >>   \* offer.get raises, the run ends
                             ELSE \E clicked, configured \in BOOLEAN, post \in PostOutcomes :
                                     notice' =
                                         IF ~clicked THEN << >>
                                         ELSE << [ configured |-> configured, post |-> post,
                                                   returned |-> send_notification(configured, post),
                                                   confirmed |-> TRUE ] >>
    /\ UNCHANGED << env, entry, page, name, selected_brands, chat_history, calls >>
    /\ UNCHANGED pipeline
    /\ UNCHANGED helper

----------------------------------------------------------------------------
(* The helper pair retrieve_documents / generate_answer *)

\* get_query_embedding: the calls it makes and whether it returns a vector.
get_query_embedding(query, embed_ok) ==
    IF ~get_openai_client
    THEN [ vector |-> FALSE, calls |-> << >> ]
    ELSE [ vector |-> embed_ok, calls |-> << Call("embed", embed_ok, query) >> ]

\* retrieve_documents(query, brands, top_k): the returned list and the calls made.
retrieve_documents(query, brs, top_k, connects, embed_ok, search_ok, found) ==
    IF ~get_astra_collection(connects)
    THEN [ ret |-> << >>, calls |-> connect_calls(connects) ]
    ELSE LET e == get_query_embedding(query, embed_ok)
             made == connect_calls(connects) \o e.calls
         IN  IF ~e.vector
             THEN [ ret |-> << >>, calls |-> made ]
             ELSE [ ret |-> IF search_ok THEN found ELSE << >>,
                    calls |-> Append(made, Call("search", search_ok, brs)) ]

\* generate_answer(query, documents): the returned string and the calls made.
generate_answer(query, docs, completion_ok, text) ==
    IF ~get_openai_client \/ docs = << >>
    THEN [ ret |-> MsgHelperNoInfo, context |-> << >>, calls |-> << >> ]
    ELSE [ ret |-> IF completion_ok THEN text ELSE MsgHelperError,
           context |-> assemble(docs),
           calls |-> << Call("generate", completion_ok,
                             [ context |-> assemble(docs), question |-> query ]) >> ]

\* A caller runs retrieve_documents(query, brands) ...
RetrieveDocuments(query, brs) ==
    /\ entry = "helpers"
    /\ h_pc \in { "idle", "answered" }
    /\ \E connects, embed_ok, search_ok \in BOOLEAN, found \in Find(brs, TopK) :
          LET r == retrieve_documents(query, brs, TopK, connects, embed_ok, search_ok, found)
          IN  /\ documents' = r.ret
              /\ calls' = r.calls
    /\ h_pc' = "retrieved"
    /\ h_query' = query
    /\ h_brands' = brs
    /\ answer' = << >>
    /\ context' = << >>
    /\ UNCHANGED << env, entry, stage, user_query, results, response >>
    /\ UNCHANGED session
    /\ UNCHANGED finder

\* ... and hands the documents to generate_answer(query, documents).
GenerateAnswer ==
    /\ entry = "helpers"
    /\ h_pc = "retrieved"
    /\ \E completion_ok \in BOOLEAN, text \in Completions :
          LET g == generate_answer(h_query, documents, completion_ok, text)
          IN  /\ answer' = << g.ret >>
              /\ context' = g.context
              /\ calls' = calls \o g.calls
    /\ h_pc' = "answered"
    /\ UNCHANGED << env, entry, stage, user_query, results, response,
                    h_query, h_brands, documents >>
    /\ UNCHANGED session
    /\ UNCHANGED finder

----------------------------------------------------------------------------

Next ==
    \/ \E typed \in Names : Continue(typed)
    \/ \E selected \in Selections : SavePreferences(selected)
    \/ \E q \in Queries : ChatInput(q)
    \/ EmbedQuery
    \/ Retrieve
    \/ NoResults
    \/ AssembleContext
    \/ Complete
    \/ AppendResponse
    \/ FindNearestRestaurant
    \/ \E q \in Queries, brs \in Selections : RetrieveDocuments(q, brs)
    \/ GenerateAnswer

Spec == Init /\ [][Next]_vars

\* A script run executes to its end: once the chat input is taken, each step of
\* the pipeline that can run does run.
PipelineStep ==
    EmbedQuery \/ Retrieve \/ NoResults \/ AssembleContext \/ Complete \/ AppendResponse

FairSpec == Spec /\ WF_vars(PipelineStep)

----------------------------------------------------------------------------
(* Context assembly on its own: the expression of lines 161, 273 and 488      *)
(* applied to any document list, the empty one and lists with repeated       *)
(* documents included.                                                       *)

\* Document lists of at most n documents.
DocLists(n) == UNION { [ 1..k -> Docs ] : k \in 0..n }

InitAssemble ==
    /\ env = [ OPENAI_API_KEY |-> TRUE, ASTRA_DB |-> TRUE ]
    /\ entry = "assemble"
    /\ page = "name_input"
    /\ name = << >>
    /\ selected_brands = << >>
    /\ chat_history = << >>
    /\ top_restaurant = << >>
    /\ current_offer = << >>
    /\ stage = "Idle"
    /\ user_query = ""
    /\ results = << >>
    /\ context = << >>
    /\ response = << >>
    /\ calls = << >>
    /\ h_pc = "idle"
    /\ h_query = ""
    /\ h_brands = << >>
    /\ documents = << >>
    /\ answer = << >>
    /\ offer_for = << >>
    /\ notice = << >>

\* A document list is handed to the expression ...
ChooseDocuments(docs) ==
    /\ entry = "assemble"
    /\ stage \in { "Idle", "Assembled" }
    /\ results' = docs
    /\ context' = << >>
    /\ stage' = "Retrieved"
    /\ UNCHANGED << env, entry, user_query, response, calls >>
    /\ UNCHANGED session
    /\ UNCHANGED helper
    /\ UNCHANGED finder

\* ... and the expression is evaluated.
ApplyAssemble ==
    /\ entry = "assemble"
    /\ stage = "Retrieved"
    /\ context' = assemble(results)
    /\ stage' = "Assembled"
    /\ UNCHANGED << env, entry, user_query, results, response, calls >>
    /\ UNCHANGED session
    /\ UNCHANGED helper
    /\ UNCHANGED finder

NextAssemble ==
    \/ \E docs \in DocLists(MaxResults) : ChooseDocuments(docs)
    \/ ApplyAssemble

SpecAssemble == InitAssemble /\ [][NextAssemble]_vars

----------------------------------------------------------------------------
(* find_offers_for_restaurant on its own: called with any restaurant, under   *)
(* any credentials and any behaviour of the external services, with the      *)
(* calls it made, the documents and completion text it received and the      *)
(* value it returned on record.                                              *)

InitOffers ==
    /\ env \in [ OPENAI_API_KEY : BOOLEAN, ASTRA_DB : BOOLEAN ]
    /\ entry = "offers"
    /\ page = "name_input"
    /\ name = << >>
    /\ selected_brands = << >>
    /\ chat_history = << >>
    /\ top_restaurant = << >>
    /\ current_offer = << >>
    /\ stage = "Idle"
    /\ user_query = ""
    /\ results = << >>
    /\ context = << >>
    /\ response = << >>
    /\ calls = << >>
    /\ h_pc = "idle"
    /\ h_query = ""
    /\ h_brands = << >>
    /\ documents = << >>
    /\ answer = << >>
    /\ offer_for = << >>
    /\ notice = << >>

\* One call find_offers_for_restaurant(restaurant_name) with service behaviour o.
FindOffers(restaurant_name, o) ==
    /\ entry = "offers"
    /\ h_pc \in { "idle", "returned" }
    /\ h_pc' = "returned"
    /\ h_query' = restaurant_name
    /\ calls' = find_offers_calls(restaurant_name, o)
    /\ documents' = IF \E i \in DOMAIN calls' : calls'[i].svc = "search" /\ calls'[i].ok
                    THEN o.found ELSE << >>
    /\ response' = IF \E i \in DOMAIN calls' : calls'[i].svc = "generate" /\ calls'[i].ok
                   THEN << o.text >> ELSE << >>
    /\ answer' = << find_offers_for_restaurant(restaurant_name, o) >>
    /\ UNCHANGED << env, entry, stage, user_query, results, context, h_brands >>
    /\ UNCHANGED session
    /\ UNCHANGED finder

NextOffers == \E r \in Restaurants, o \in OfferOutcomes(OfferTexts) : FindOffers(r, o)

SpecOffers == InitOffers /\ [][NextOffers]_vars

----------------------------------------------------------------------------
(* Properties *)

CallsTo(svc) == { i \in DOMAIN calls : calls[i].svc = svc }
Failed(svc) == \E i \in CallsTo(svc) : ~calls[i].ok
Succeeded(svc) == \E i \in CallsTo(svc) : calls[i].ok

\* An invocation is under way or has just ended, and its calls are on record.
ChatRunning == entry = "app" /\ stage # "Idle"
HelperRan == entry = "helpers" /\ h_pc # "idle"

\* Stage 1 failed: no client was obtained, or the embedding call raised.
EmbedFailed ==
    \/ (ChatRunning \/ HelperRan) /\ Failed("embed")
    \/ ChatRunning /\ stage # "Start" /\ ~get_openai_client
    \/ HelperRan /\ ~get_openai_client

\* C1: if the embedding step of an invocation fails (the call raises, or no
\* client or vector is obtained), that invocation calls neither the vector
\* search nor the completion service; a search or completion call is always
\* preceded by a successful embedding call.  Chat pipeline and helper pair.
C1_EmbedFailureShortCircuits ==
    /\ EmbedFailed => CallsTo("search") = {} /\ CallsTo("generate") = {}
    /\ \A i \in CallsTo("search") \cup CallsTo("generate") :
           \E j \in CallsTo("embed") : j < i /\ calls[j].ok

C1_Witness == stage = "Aborted" /\ Failed("embed")

\* C2: when the vector search returns an empty sequence, no completion call is
\* made and the answer is the fixed no-information message (of the chat
\* pipeline, or of generate_answer); the run is not aborted.
C2_EmptyResultNoGenerate ==
    /\ (ChatRunning /\ Succeeded("search") /\ results = << >>) =>
           /\ CallsTo("generate") = {}
           /\ stage \in { "Retrieved", "NoInfo" }
           /\ stage = "NoInfo" => response = << MsgNoInfo >>
    /\ stage = "NoInfo" => Succeeded("search") /\ results = << >>
    /\ (HelperRan /\ Succeeded("search") /\ documents = << >>) =>
           /\ CallsTo("generate") = {}
           /\ h_pc = "answered" => answer = << MsgHelperNoInfo >>

C2_Witness == stage = "NoInfo" /\ response = << MsgNoInfo >> /\ Succeeded("search")

\* The answers that are fixed strings of the program.
FixedAnswers == { MsgApiConfig, MsgDbConfig, MsgNoInfo, MsgError }
Answers == FixedAnswers \cup Completions

\* C3: whatever the outcomes of the embedding, connection, search and
\* completion steps, no exception leaves the pipeline (the stage is never
\* "Raised"), a finished run holds exactly one string answer, that answer is
\* what the assistant turn records, every unfinished run can take its next
\* step, and a failed completion call yields the fixed fallback string.
C3_AlwaysAStringAnswer ==
    /\ stage # "Raised"
    /\ stage \in Terminal => Len(response) = 1 /\ response[1] \in Answers
    /\ (ChatRunning /\ Failed("generate")) => response = << MsgError >>
    /\ (HelperRan /\ Failed("generate")) => answer = << MsgHelperError >>
    /\ h_pc = "answered" =>
           Len(answer) = 1 /\ answer[1] \in { MsgHelperNoInfo, MsgHelperError } \cup Completions
    /\ ChatRunning => ENABLED (EmbedQuery \/ Retrieve \/ NoResults \/ AssembleContext
                               \/ Complete \/ AppendResponse)
    /\ \A i \in DOMAIN chat_history : chat_history[i].role = "assistant" =>
           chat_history[i].content \in Answers

C3_Witness == stage = "Answered" /\ Failed("generate") /\ response = << MsgError >>

\* The "I'm having trouble connecting to my knowledge base." messages.
Connectivity == { MsgApiConfig, MsgDbConfig }

\* Stage 1 of a chat run failed.
ChatEmbedFailed ==
    ChatRunning /\ stage # "Start" /\ (~get_openai_client \/ Failed("embed"))

\* C4 as stated: whenever stage 1 of the chat pipeline fails (client
\* unavailable, or the embedding call raises), the run aborts and the answer
\* is a "trouble connecting to my knowledge base" message.
C4_Original ==
    ChatEmbedFailed => stage = "Aborted" /\ response[1] \in Connectivity

\* C4 amended: whenever stage 1 of the chat pipeline fails, the run aborts
\* without a search or completion call; the answer is the connectivity message
\* (API configuration) when the client is unavailable, and the generic
\* "I encountered an error while processing your request" message when the
\* embedding call raises.
C4_EmbedFailureMessages ==
    ChatEmbedFailed =>
        /\ stage = "Aborted"
        /\ CallsTo("search") = {} /\ CallsTo("generate") = {}
        /\ ~get_openai_client => response = << MsgApiConfig >> /\ calls = << >>
        /\ Failed("embed") => response = << MsgError >>

C4_Witness ==
    stage = "Aborted" /\ get_openai_client /\ Failed("embed") /\ response = << MsgError >>

\* The store is not configured or the connection raised.
StoreUnavailable == ~env.ASTRA_DB \/ Failed("connect")

\* Stage 2 failed, in the chat pipeline and in retrieve_documents.
ChatRetrieveFailed ==
    /\ ChatRunning /\ stage \notin { "Start", "Embedded" }
    /\ Succeeded("embed")
    /\ StoreUnavailable \/ Failed("search")
HelperRetrieveFailed == HelperRan /\ (StoreUnavailable \/ Failed("search"))

\* C5 as stated, for the chat pipeline: whenever stage 2 fails (store
\* unavailable, or the search call raises), the run aborts with the
\* connectivity message, which differs from the empty-result answer.
C5_Original ==
    ChatRetrieveFailed =>
        stage = "Aborted" /\ response[1] \in Connectivity /\ response # << MsgNoInfo >>

\* C5 amended: in the chat pipeline a stage-2 failure aborts the run without a
\* completion call, with the connectivity message (database configuration)
\* when the store is unavailable and with the generic error message when the
\* search call raises; both differ from the empty-result message.  In the
\* helper pair retrieve_documents returns the empty list on every stage-2
\* failure, so generate_answer gives the same fixed answer as for an empty
\* result and makes no completion call.
C5_RetrieveFailureMessages ==
    /\ ChatRetrieveFailed =>
           /\ stage = "Aborted"
           /\ CallsTo("generate") = {}
           /\ StoreUnavailable => response = << MsgDbConfig >> /\ CallsTo("search") = {}
           /\ Failed("search") => response = << MsgError >>
           /\ response # << MsgNoInfo >>
    /\ HelperRetrieveFailed =>
           /\ documents = << >>
           /\ CallsTo("generate") = {}
           /\ h_pc = "answered" => answer = << MsgHelperNoInfo >>

C5_Witness ==
    stage = "Aborted" /\ Succeeded("connect") /\ Failed("search") /\ response = << MsgError >>

\* C6: a non-empty brand filter set of the query (the session's selected
\* brands in the chat pipeline, the brands argument of retrieve_documents) is
\* the label filter of the vector search, so no retrieved document has a label
\* outside the set; an empty set applies no filter.
C6_FilterForwarded ==
    /\ ChatRunning =>
           /\ \A i \in CallsTo("search") : calls[i].arg = selected_brands
           /\ selected_brands # << >> =>
                  \A k \in DOMAIN results : results[k].brand \in Range(selected_brands)
    /\ HelperRan =>
           /\ \A i \in CallsTo("search") : calls[i].arg = h_brands
           /\ h_brands # << >> =>
                  \A k \in DOMAIN documents : documents[k].brand \in Range(h_brands)

IsPrefix(s, t) == Len(s) <= Len(t) /\ SubSeq(t, 1, Len(s)) = s

\* C7: chat_history is append-only.  Every step, whatever the UI event, leaves
\* the old history a prefix of the new one (so every earlier history is a
\* prefix of every later one); the history changes only by one appended turn,
\* and only in the two turn-producing steps: a received query appends a user
\* turn, a produced answer appends the assistant turn holding that answer.
C7_HistoryAppendOnly ==
    [][ /\ IsPrefix(chat_history, chat_history')
        /\ chat_history' # chat_history =>
               /\ Len(chat_history') = Len(chat_history) + 1
               /\ \/ /\ stage = "Idle" /\ stage' = "Start"
                     /\ chat_history'[Len(chat_history')] = Turn("user", user_query')
                  \/ /\ stage \in Terminal /\ stage' = "Idle"
                     /\ chat_history'[Len(chat_history')] = Turn("assistant", response[1])
      ]_vars

C7_Witness ==
    /\ Len(chat_history) >= 3
    /\ selected_brands # << >>
    /\ top_restaurant # << >>
    /\ current_offer # << >>

\* A context has been assembled, and the documents it was assembled from.
Assembled ==
    \/ entry = "app" /\ stage \in { "Assembled", "Answered" }
    \/ entry = "helpers" /\ h_pc = "answered" /\ CallsTo("generate") # {}
AssembledFrom == IF entry = "app" THEN results ELSE documents

\* C8 as stated: the context holds the non-empty content fields of the
\* documents, in document order, each once, any two neighbours separated by
\* exactly one blank line.
C8_Original ==
    Assembled => context = join(Separator, NonEmpty(contents(AssembledFrom)))

\* Where entry i of the context starts (0-based), when every entry is followed
\* by one separator.
RECURSIVE Offset(_, _)
Offset(parts, i) ==
    IF i = 1 THEN 0 ELSE Offset(parts, i - 1) + Len(parts[i - 1]) + Len(Separator)

\* C8 amended: the context holds one entry per document, in document order:
\* the document's content field, or the empty entry when the content is empty
\* or missing; every two consecutive entries, empty ones included, are
\* separated by exactly one "\n\n", and nothing else is in the context.  So
\* two non-empty contents with k content-less documents between them are
\* k + 1 separators apart.
C8_ContextLayout ==
    Assembled =>
        LET parts == contents(AssembledFrom)
            n == Len(parts)
        IN  /\ n > 0
            /\ Len(context) = Offset(parts, n) + Len(parts[n])
            /\ \A i \in 1..n :
                   SubSeq(context, Offset(parts, i) + 1,
                          Offset(parts, i) + Len(parts[i])) = parts[i]
            /\ \A i \in 1..(n - 1) :
                   SubSeq(context, Offset(parts, i) + Len(parts[i]) + 1,
                          Offset(parts, i + 1)) = Separator

C8_Witness ==
    /\ stage = "Assembled"
    /\ Len(results) = 3
    /\ contents(results)[1] # << >>
    /\ contents(results)[2] = << >>
    /\ contents(results)[3] # << >>
    /\ context = contents(results)[1] \o << NL, NL, NL, NL >> \o contents(results)[3]

\* The forward edges of the chat pipeline.
Edges ==
    { << "Idle", "Start" >>,
      << "Start", "Embedded" >>, << "Start", "Aborted" >>,
      << "Embedded", "Retrieved" >>, << "Embedded", "Aborted" >>,
      << "Retrieved", "Assembled" >>, << "Retrieved", "NoInfo" >>,
      << "Assembled", "Answered" >>,
      << "Answered", "Idle" >>, << "NoInfo", "Idle" >>, << "Aborted", "Idle" >> }

\* What each stage of a chat run rests on.
StageConsistent ==
    /\ stage \in Stages \ { "Raised" }
    /\ stage \in { "Embedded", "Retrieved", "Assembled", "Answered", "NoInfo" } =>
           Succeeded("embed")
    /\ stage \in { "Retrieved", "Assembled", "Answered", "NoInfo" } =>
           Succeeded("connect") /\ Succeeded("search")
    /\ stage \in { "Assembled", "Answered" } =>
           results # << >> /\ context = assemble(results)
    /\ stage = "NoInfo" => results = << >>
    /\ CallsTo("search") # {} => Succeeded("embed")
    /\ (entry = "app" /\ CallsTo("generate") # {}) =>
           /\ stage = "Answered"
           /\ \A i \in CallsTo("generate") : calls[i].arg.context = assemble(results)
    /\ stage \in Terminal <=> (entry = "app" /\ Len(response) = 1)
    /\ stage \notin Terminal => response = << >>

\* C9: a chat run moves only along the forward edges Start, Embedded,
\* Retrieved, Assembled, Answered (with the terminal outcomes NoInfo and
\* Aborted); a stage is entered only after the one before it succeeded, no
\* stage acts twice, and the run ends in exactly one terminal outcome, whose
\* answer is the one that is appended.
C9_ForwardOnly ==
    /\ [] StageConsistent
    /\ [][ /\ stage' # stage => << stage, stage' >> \in Edges
           /\ (entry = "app" /\ stage' = stage) =>
                  UNCHANGED << calls, results, context, response >>
           /\ (stage # "Idle" /\ stage' # "Idle") =>
                  /\ IsPrefix(calls, calls')
                  /\ UNCHANGED << user_query, chat_history >>
         ]_vars

C9_Witness ==
    /\ stage = "Answered"
    /\ calls[1].svc = "embed" /\ calls[2].svc = "connect"
    /\ calls[3].svc = "search" /\ calls[4].svc = "generate"
    /\ Len(calls) = 4 /\ \A i \in DOMAIN calls : calls[i].ok

\* C10: no retries.  In one invocation, of the chat pipeline or of the helper
\* pair, the embedding call, the connection, the vector search call and the
\* completion call are each made at most once, whatever their outcomes.
C10_NoRetries ==
    \A svc \in { "embed", "connect", "search", "generate" } : Cardinality(CallsTo(svc)) <= 1

C10_Witness ==
    /\ stage = "Aborted"
    /\ Failed("search")
    /\ Cardinality(CallsTo("search")) = 1
    /\ Cardinality(CallsTo("embed")) = 1

\* The entries joined from the left: the first k entries, a "\n\n" before
\* every entry but the first.
RECURSIVE JoinLeft(_, _)
JoinLeft(parts, k) ==
    IF k = 0 THEN << >>
    ELSE IF k = 1 THEN parts[1]
    ELSE JoinLeft(parts, k - 1) \o << NL, NL >> \o parts[k]

RECURSIVE TotalLen(_, _)
TotalLen(parts, k) == IF k = 0 THEN 0 ELSE TotalLen(parts, k - 1) + Len(parts[k])

\* C11: context assembly is total and is the join, in input order and with a
\* blank-line separator, of the documents' content fields, a document without
\* a content field contributing the empty string; the empty document list
\* gives the empty context; the expression can be evaluated on every list.
C11_AssembleIsJoin ==
    /\ (entry = "assemble" /\ stage = "Assembled") =>
           LET parts == [ i \in DOMAIN results |->
                            IF "content" \in DOMAIN results[i]
                            THEN results[i].content ELSE << >> ]
               n == Len(results)
           IN  /\ context = JoinLeft(parts, n)
               /\ n = 0 => context = << >>
               /\ n > 0 => Len(context) = TotalLen(parts, n) + 2 * (n - 1)
               /\ \A i \in 1..Len(context) : context[i] \in { NL, "a", "b" }
    /\ (entry = "assemble" /\ stage = "Retrieved") => ENABLED ApplyAssemble

C11_Witness ==
    entry = "assemble" /\ stage = "Assembled" /\ results = << >> /\ context = << >>

\* C12: missing credentials are found when the call is made, not at startup,
\* and end the chat run without the external calls that need them: without
\* the OpenAI key a chat query makes no call at all and answers with the
\* connectivity message; without the store token or endpoint it makes no
\* connection, search or completion call.
C12_MissingCredentials ==
    /\ (ChatRunning /\ stage # "Start" /\ ~env.OPENAI_API_KEY) =>
           /\ calls = << >>
           /\ stage = "Aborted"
           /\ response = << MsgApiConfig >>
    /\ (ChatRunning /\ ~env.ASTRA_DB) =>
           /\ CallsTo("connect") = {} /\ CallsTo("search") = {} /\ CallsTo("generate") = {}
           /\ stage \in { "Start", "Embedded", "Aborted" }
           /\ (stage = "Aborted" /\ Succeeded("embed")) => response = << MsgDbConfig >>

C12_Witness ==
    /\ page = "brand_selection"
    /\ ~env.OPENAI_API_KEY
    /\ stage = "Aborted"
    /\ chat_history # << >>
    /\ calls = << >>

\* Turns alternate user, assistant, user, ... starting with a user turn.
Alternates(history) ==
    \A i \in DOMAIN history :
        history[i].role = IF i % 2 = 1 THEN "user" ELSE "assistant"

\* Between queries the history pairs every user turn with an assistant turn;
\* during a run exactly the submitted query is unanswered.
HistoryShape ==
    entry = "app" =>
        /\ Alternates(chat_history)
        /\ stage = "Idle" => Len(chat_history) % 2 = 0
        /\ stage # "Idle" =>
               /\ Len(chat_history) % 2 = 1
               /\ chat_history[Len(chat_history)] = Turn("user", user_query)

\* C13: every submitted chat query gets exactly one assistant turn: the query
\* appends one user turn and, whatever the external calls do, the run ends
\* with one assistant turn appended, so that between queries chat_history has
\* even length and alternates user, assistant, ... starting with user.
C13_EveryQueryAnswered ==
    /\ [] HistoryShape
    /\ [][ entry = "app" =>
             /\ (stage = "Idle" /\ stage' # "Idle") =>
                    \E q \in Queries : chat_history' = Append(chat_history, Turn("user", q))
             /\ (stage # "Idle" /\ stage' = "Idle") =>
                    \E text \in Answers :
                        chat_history' = Append(chat_history, Turn("assistant", text))
             /\ ((stage = "Idle") <=> (stage' = "Idle")) => chat_history' = chat_history
         ]_vars
    /\ ChatRunning ~> (stage = "Idle")

C13_Witness ==
    /\ stage = "Idle"
    /\ Len(chat_history) = 4
    /\ chat_history[2].content = MsgError
    /\ chat_history[4].content \in Completions

\* C14: the session starts on name_input; the only page change is from
\* name_input to brand_selection, taken with a name that is non-blank after
\* stripping; a blank name changes neither page nor stored name.  So the page
\* is always one of the two, brand_selection implies a non-blank stored name,
\* and the page never goes back to name_input.
C14_PageRouting ==
    /\ page = "name_input" /\ name = << >>
    /\ [] ( /\ page \in { "name_input", "brand_selection" }
            /\ page = "brand_selection" => \E i \in DOMAIN name : name[i] # " "
            /\ page = "name_input" => name = << >> )
    /\ [][ /\ page' # page =>
                 /\ page = "name_input" /\ page' = "brand_selection"
                 /\ name' \in Names
                 /\ \E i \in DOMAIN name' : name'[i] # " "
           /\ name' # name => page' # page
           /\ page = "brand_selection" => page' = "brand_selection"
         ]_vars

C14_Witness == page = "brand_selection" /\ name = << " ", "A", " " >>

\* find_offers_for_restaurant has returned; its value is answer[1].
OfferReturned == entry = "offers" /\ h_pc = "returned"

\* Some part of the text is a JSON document.
ContainsJSON(text) ==
    \E from \in 0..Len(text), to \in 0..Len(text) :
        from <= to /\ ~json_loads(slice(text, from, to)).raised

\* The value a JSON part of the text parses to.
ParsedFrom(text, value) ==
    \E from \in 0..Len(text), to \in 0..Len(text) :
        /\ from <= to
        /\ ~json_loads(slice(text, from, to)).raised
        /\ value = json_loads(slice(text, from, to)).value

\* C15: find_offers_for_restaurant never raises and returns None or an offer
\* mapping: None exactly when the OpenAI client is missing, the collection is
\* missing or an external call raises; the generic offer, with no completion
\* call, when the search returns nothing; the parsed JSON when the completion
\* text contains parseable JSON; otherwise the fallback offer whose value is
\* at most the first 100 characters of the completion text.
C15_OfferLookupResult ==
    OfferReturned =>
        LET ret == answer[1]
            failed == \/ ~env.OPENAI_API_KEY
                      \/ ~env.ASTRA_DB
                      \/ \E i \in DOMAIN calls : ~calls[i].ok
        IN  /\ ret = << >> \/ is_mapping(ret[1])
            /\ (ret = << >>) <=> failed
            /\ (~failed /\ documents = << >>) =>
                   /\ ret = << generic_offer(h_query) >>
                   /\ CallsTo("generate") = {}
            /\ (~failed /\ documents # << >>) =>
                   /\ response # << >>
                   /\ IF ContainsJSON(response[1])
                      THEN ParsedFrom(response[1], ret)
                      ELSE /\ ret # << >>
                           /\ ret[1].title = << "Offer for ", h_query >>
                           /\ Len(ret[1].value) <= OfferValueLimit
                           /\ ret[1].value = SubSeq(response[1], 1, Len(ret[1].value))

\* C16: after any sequence of "Find Nearest Restaurant" clicks, whenever
\* top_restaurant and current_offer are both set (the "Current Offer" card is
\* shown), current_offer is the offer found for the restaurant now stored in
\* top_restaurant; and current_offer is never set while top_restaurant is unset.
C16_OfferMatchesRestaurant ==
    /\ (top_restaurant # << >> /\ current_offer # << >>) => offer_for = top_restaurant
    /\ top_restaurant = << >> => current_offer = << >>

\* C17: the confirmation "Notification sent to your phone!" is shown only when
\* send_notification returned True, which it does only with URL and token
\* configured and a POST answered with status 200; with missing credentials, a
\* non-200 status or a raising request it returns False and no confirmation
\* is shown.
C17_ConfirmationOnlyAfterDelivery ==
    notice # << >> =>
        /\ notice[1].returned <=> (notice[1].configured /\ notice[1].post = "200")
        /\ notice[1].confirmed => notice[1].returned

====
